---- MODULE Spec2Model ----
(***************************************************************************)
(* Model of proof/permutations.c: is_power_of_two, reverse_bits,           *)
(* log2_pow2 and reverse_bits_limited over uint64_t.                       *)
(*                                                                         *)
(* A uint64_t is modelled at its full width as the set of the positions    *)
(* of its set bits (a subset of 0..63), so that every shift, mask and      *)
(* wrap-around of the C code is computed bit for bit.  The loops are       *)
(* executed one iteration per step.                                        *)
(***************************************************************************)
EXTENDS Integers, FiniteSets, Sequences, TLC

\* Width of uint64_t (and of size_t on the LP64 targets of the code).
WordBits == 64

\* Number of low and of high bit positions of a window that the sampled
\* inputs enumerate exhaustively.
EdgeK == 2

\* Largest window width for which the whole map v -> reverse_bits_limited
\* is examined as a permutation.
MaxPermW == 4

Bits == 0 .. (WordBits - 1)

Zero == {}
One  == {0}
Full == Bits

Pow2(k) == {k}

(* ---------------- uint64_t operators ---------------- *)

\* x << 1 : the bit shifted out of position 63 is lost.
Shl1(x) == {b + 1 : b \in {c \in x : c + 1 < WordBits}}

\* x >> 1 (logical, the operand is unsigned).
Shr1(x) == {b - 1 : b \in {c \in x : c >= 1}}

\* x >> s for a shift count the C standard defines (0 <= s < 64).
Shr(x, s) == {b - s : b \in {c \in x : c >= s}}

And(x, y) == x \cap y

Or(x, y) == x \cup y

\* x - 1 in uint64_t: 0 - 1 wraps to 2^64 - 1.
Dec(x) ==
  IF x = Zero THEN Full
  ELSE LET m == CHOOSE b \in x : \A c \in x : b <= c
       IN  (x \ {m}) \cup (0 .. (m - 1))

\* unsigned x < y : the highest bit in which they differ is set in y.
Less(x, y) == \E b \in y \ x : \A c \in x \ y : c < b

LessEq(x, y) == x = y \/ Less(x, y)

(* ---------------- sampled inputs ---------------- *)

EdgeBits(w) == {b \in 0 .. (w - 1) : b < EdgeK \/ b >= w - EdgeK}

\* Values below 2^w: every pattern of the edge bits, and its complement
\* inside the window.
WindowSamples(w) ==
  UNION {{s, (0 .. (w - 1)) \ s} : s \in SUBSET EdgeBits(w)}

SampleWords ==
  WindowSamples(WordBits)
    \cup {Pow2(k) : k \in Bits}
    \cup {0 .. (k - 1) : k \in 0 .. WordBits}

(* ---------------- the four functions ---------------- *)

IsPowerOfTwoShift(x) == And(x, Shr1(x)) = Zero

\* bool is_power_of_two(uint64_t n) { return (n & (n - 1)) == 0; }
is_power_of_two(x) == And(x, Dec(x)) = Zero

RevLoopCond63(k) == k < WordBits - 1

\* for (...; i < 64; ...)
RevLoopCond(k) == k < WordBits

RevBodySwapped(st) ==
  [n      |-> Shr1(st.n),
   result |-> Shl1(Or(st.result, And(st.n, One))),
   i      |-> st.i + 1]

RevBodyNoShift(st) ==
  [n      |-> st.n,
   result |-> Or(Shl1(st.result), And(st.n, One)),
   i      |-> st.i + 1]

\* result <<= 1; result |= (n & 1); n >>= 1; and the ++i of the loop,
\* on the locals st = [n, result, i]
RevBody(st) ==
  [n      |-> Shr1(st.n),
   result |-> Or(Shl1(st.result), And(st.n, One)),
   i      |-> st.i + 1]

RECURSIVE RevLoop(_)
RevLoop(st) ==
  IF RevLoopCond(st.i) THEN RevLoop(RevBody(st)) ELSE st.result

\* uint64_t reverse_bits(uint64_t n)
reverse_bits(x) == RevLoop([n |-> x, result |-> Zero, i |-> 0])

Log2ContinueEarly(x) == Shr1(x) # Zero

\* the truth value of (n >>= 1), x being n after the assignment
Log2Continue(x) == x # Zero

\* n >>= 1 (by the loop test) and position++, on the locals
\* st = [n, position]
Log2Body(st) == [n |-> Shr1(st.n), position |-> st.position + 1]

RECURSIVE Log2Loop(_)
Log2Loop(st) ==
  IF Log2Continue(Shr1(st.n)) THEN Log2Loop(Log2Body(st)) ELSE st.position

\* uint64_t log2_pow2(uint64_t n)
log2_pow2(x) == Log2Loop([n |-> x, position |-> 0])

UnusedBitLenOff(p) == WordBits - 1 - p

\* size_t unused_bit_len = 64 - log2_pow2(n);
UnusedBitLen(p) == WordBits - p

\* Results a build may give to a shift whose count is not less than the
\* width of the operand, which C leaves undefined (C11 6.5.7p3): the count
\* taken modulo the width (x86-64, AArch64 shift instructions), every bit
\* shifted out, or an arbitrary word (a compiler that folds the shift to an
\* undefined value).
UndefinedShift(x, s) ==
  {Shr(x, s % WordBits), Zero} \cup WindowSamples(WordBits)

\* reverse_bits(value) >> unused_bit_len : the set of possible results.
ShiftRight(x, s) ==
  IF s < WordBits THEN {Shr(x, s)} ELSE UndefinedShift(x, s)

\* uint64_t reverse_bits_limited(uint64_t n, uint64_t value) : the set of
\* possible results.
reverse_bits_limited(x, v) ==
  ShiftRight(reverse_bits(v), UnusedBitLen(log2_pow2(x)))

(* ---------------- calls ---------------- *)

Functions ==
  {"is_power_of_two", "reverse_bits", "log2_pow2", "reverse_bits_limited"}

\* n values outside the contract of reverse_bits_limited.
OffContractN == {Zero, Or(Pow2(0), Pow2(1)), Full}

LimitedCalls ==
  UNION {{[fn |-> "reverse_bits_limited", n |-> Pow2(w), value |-> v] :
            v \in WindowSamples(w)} : w \in Bits}
    \cup
  {[fn |-> "reverse_bits_limited", n |-> x, value |-> v] :
     x \in OffContractN \cup {One}, v \in WindowSamples(WordBits)}

Calls ==
  {[fn |-> f, n |-> x, value |-> Zero] :
     f \in Functions \ {"reverse_bits_limited"}, x \in SampleWords}
    \cup LimitedCalls

(* ---------------- state ---------------- *)

VARIABLES
  fn,             \* the function called
  arg_n,          \* its argument n, as passed
  value,          \* its argument value (reverse_bits_limited)
  pc,             \* the function whose body is executing, or "done"
  n,              \* parameter n of the executing reverse_bits / log2_pow2
  result,         \* local of reverse_bits
  i,              \* loop counter of reverse_bits
  position,       \* local of log2_pow2
  unused_bit_len, \* local of reverse_bits_limited
  ret,            \* uint64_t returned by reverse_bits(_limited)
  ret_pos,        \* uint64_t returned by log2_pow2
  ret_bool        \* bool returned by is_power_of_two

vars == <<fn, arg_n, value, pc, n, result, i, position, unused_bit_len,
          ret, ret_pos, ret_bool>>

\* reverse_bits_limited evaluates log2_pow2(n) first.
Entry(f) == IF f = "reverse_bits_limited" THEN "log2_pow2" ELSE f

Init ==
  \E c \in Calls :
    /\ fn = c.fn
    /\ arg_n = c.n
    /\ value = c.value
    /\ pc = Entry(c.fn)
    /\ n = c.n
    /\ result = Zero
    /\ i = 0
    /\ position = 0
    /\ unused_bit_len = 0
    /\ ret = Zero
    /\ ret_pos = 0
    /\ ret_bool = FALSE

IsPowerOfTwo ==
  /\ pc = "is_power_of_two"
  /\ ret_bool' = is_power_of_two(n)
  /\ pc' = "done"
  /\ UNCHANGED <<fn, arg_n, value, n, result, i, position, unused_bit_len,
                 ret, ret_pos>>

\* one iteration of the loop of reverse_bits
ReverseBitsIter ==
  /\ pc = "reverse_bits"
  /\ RevLoopCond(i)
  /\ LET s == RevBody([n |-> n, result |-> result, i |-> i]) IN
       /\ n' = s.n
       /\ result' = s.result
       /\ i' = s.i
  /\ UNCHANGED <<fn, arg_n, value, pc, position, unused_bit_len,
                 ret, ret_pos, ret_bool>>

\* loop exit of reverse_bits and return to the caller
ReverseBitsReturn ==
  /\ pc = "reverse_bits"
  /\ ~RevLoopCond(i)
  /\ IF fn = "reverse_bits"
     THEN /\ ret' = result
          /\ pc' = "done"
     ELSE /\ ret' = ret
          /\ pc' = "reverse_bits_limited"
  /\ UNCHANGED <<fn, arg_n, value, n, result, i, position, unused_bit_len,
                 ret_pos, ret_bool>>

\* while (n >>= 1) position++;  -- the test succeeds
Log2Iter ==
  /\ pc = "log2_pow2"
  /\ Log2Continue(Shr1(n))
  /\ LET s == Log2Body([n |-> n, position |-> position]) IN
       /\ n' = s.n
       /\ position' = s.position
  /\ UNCHANGED <<fn, arg_n, value, pc, result, i, unused_bit_len,
                 ret, ret_pos, ret_bool>>

\* the test fails: log2_pow2 returns; reverse_bits_limited stores
\* unused_bit_len and calls reverse_bits(value)
Log2Return ==
  /\ pc = "log2_pow2"
  /\ ~Log2Continue(Shr1(n))
  /\ IF fn = "log2_pow2"
     THEN /\ n' = Shr1(n)
          /\ ret_pos' = position
          /\ pc' = "done"
          /\ UNCHANGED <<unused_bit_len, result, i>>
     ELSE /\ unused_bit_len' = UnusedBitLen(position)
          /\ pc' = "reverse_bits"
          /\ n' = value
          /\ result' = Zero
          /\ i' = 0
          /\ UNCHANGED ret_pos
  /\ UNCHANGED <<fn, arg_n, value, position, ret, ret_bool>>

\* return reverse_bits(value) >> unused_bit_len;
LimitedReturn ==
  /\ pc = "reverse_bits_limited"
  /\ ret' \in ShiftRight(result, unused_bit_len)
  /\ pc' = "done"
  /\ UNCHANGED <<fn, arg_n, value, n, result, i, position, unused_bit_len,
                 ret_pos, ret_bool>>

Next ==
  \/ IsPowerOfTwo
  \/ ReverseBitsIter
  \/ ReverseBitsReturn
  \/ Log2Iter
  \/ Log2Return
  \/ LimitedReturn

Spec == Init /\ [][Next]_vars

\* A call runs to completion: the program is sequential and nothing can
\* pre-empt a step that is enabled.
FairSpec == Spec /\ WF_vars(Next)

TypeOK ==
  /\ fn \in Functions
  /\ pc \in Functions \cup {"done"}
  /\ arg_n \subseteq Bits /\ value \subseteq Bits /\ n \subseteq Bits
  /\ result \subseteq Bits /\ ret \subseteq Bits
  /\ i \in 0 .. WordBits
  /\ position \in Nat /\ ret_pos \in Nat
  /\ unused_bit_len \in 0 .. WordBits
  /\ ret_bool \in BOOLEAN

(* ---------------- properties ---------------- *)

Done(f) == pc = "done" /\ fn = f

\* the values 0 .. 2^w - 1
Below(w) == SUBSET (0 .. (w - 1))

\* C1: for n = 1 << w, w in 0..63, and v < n,
\* reverse_bits_limited(n, reverse_bits_limited(n, v)) = v.
C1_Involution ==
  \A w \in Bits :
    (Done("reverse_bits_limited") /\ arg_n = Pow2(w) /\ Less(value, arg_n))
      => reverse_bits_limited(arg_n, ret) = {value}

\* C2: for n = 1 << w, v -> reverse_bits_limited(n, v) restricted to [0, n)
\* is a permutation of 0 .. n-1: the result of the call is below n, no other
\* v below n has the same image, and every element below n is an image.
C2_Bijection ==
  \A w \in 0 .. MaxPermW :
    (Done("reverse_bits_limited") /\ arg_n = Pow2(w) /\ Less(value, arg_n))
      => /\ ret \in Below(w)
         /\ \A v \in Below(w) \ {value} :
              ret \notin reverse_bits_limited(arg_n, v)
         /\ \A y \in Below(w) : \E v \in Below(w) :
              reverse_bits_limited(arg_n, v) = {y}

\* C3: for n = 1 << w, w in 0..63, and v < n, reverse_bits_limited(n, v) < n.
C3_RangePreserved ==
  \A w \in Bits :
    (Done("reverse_bits_limited") /\ arg_n = Pow2(w) /\ Less(value, arg_n))
      => Less(ret, arg_n)

\* C4: reverse_bits_limited(1, 0) computes the width 0 and the shift count
\* 64, and returns 0.
C4_UnaryIdentity ==
  (Done("reverse_bits_limited") /\ arg_n = One /\ value = Zero)
    => /\ position = 0
       /\ unused_bit_len = WordBits
       /\ ret = Zero

\* C5: for n = 1 << w, w in 1..63, and v < n, bit b of the result is bit
\* w-1-b of v for b < w and is 0 for b >= w; with the literal cases
\* (8,1) -> 4, (8,3) -> 6, (16,11) -> 13, (n,0) -> 0 and (n,n-1) -> n-1.
C5_WindowReversal ==
  \A w \in 1 .. (WordBits - 1) :
    (Done("reverse_bits_limited") /\ arg_n = Pow2(w) /\ Less(value, arg_n))
      => /\ \A b \in Bits : b \in ret <=> (b < w /\ (w - 1 - b) \in value)
         /\ (w = 3 /\ value = {0}) => ret = {2}
         /\ (w = 3 /\ value = {0, 1}) => ret = {1, 2}
         /\ (w = 4 /\ value = {0, 1, 3}) => ret = {0, 2, 3}
         /\ value = Zero => ret = Zero
         /\ value = Dec(arg_n) => ret = Dec(arg_n)

C5_Witness ==
  /\ Done("reverse_bits_limited")
  /\ arg_n = Pow2(4) /\ value = {0, 1, 3} /\ ret = {0, 2, 3}

\* C6: bit b of reverse_bits(n) is bit 63-b of n, for every b in 0..63.
C6_FullReversal ==
  Done("reverse_bits")
    => /\ \A b \in Bits : b \in ret <=> (WordBits - 1 - b) \in arg_n
       /\ arg_n = One => ret = Pow2(63)
       /\ arg_n = Pow2(63) => ret = One
       /\ arg_n = Zero => ret = Zero
       /\ arg_n = Full => ret = Full

C6_Witness ==
  Done("reverse_bits") /\ arg_n = {0, 1, 63} /\ ret = {0, 62, 63}

\* C7: reverse_bits(reverse_bits(x)) = x for every x.
C7_ReverseInvolution ==
  Done("reverse_bits") => reverse_bits(ret) = arg_n

C7_Witness ==
  Done("reverse_bits") /\ arg_n = {0, 1} /\ ret = {62, 63}

\* C8: for n >= 1, log2_pow2(n) is the largest k with 2^k <= n; so
\* log2_pow2(1 << k) = k and log2_pow2(1) = 0.
C8_FloorLog2 ==
  (Done("log2_pow2") /\ arg_n # Zero)
    => /\ ret_pos \in Bits
       /\ LessEq(Pow2(ret_pos), arg_n)
       /\ \A k \in Bits : LessEq(Pow2(k), arg_n) => k <= ret_pos
       /\ \A k \in Bits : arg_n = Pow2(k) => ret_pos = k

C8_Witness ==
  Done("log2_pow2") /\ arg_n = 0 .. 9 /\ ret_pos = 9

\* C9: is_power_of_two(n) is true exactly when n = 0 or n = 2^k for some k
\* in 0..63.
C9_PowerOfTwoOrZero ==
  Done("is_power_of_two")
    => (ret_bool <=> (arg_n = Zero \/ \E k \in Bits : arg_n = Pow2(k)))

C9_Witness ==
  Done("is_power_of_two") /\ arg_n = Zero /\ Dec(arg_n) = Full /\ ret_bool

====
